---- MODULE Spec2Model ----
(***************************************************************************)
(* A model of the regex-map SmartModule (src/src/lib.rs): the one-time     *)
(* `init` entry point that parses the `spec` parameter, compiles every     *)
(* pattern and installs the list in the write-once cell OPS, and the       *)
(* per-record `map` entry point that folds the installed operations over   *)
(* the record value and re-serialises the result as JSON.                  *)
(*                                                                         *)
(* Texts are sequences of one-character strings.  The byte "xFF" stands    *)
(* for a byte that is not valid UTF-8.  A pattern is a sequence of tokens  *)
(* of a fragment of the regex dialect:                                     *)
(*    a literal character   matches itself                                 *)
(*    "d"                   the class \d                                   *)
(*    "("  ")"              an unnamed capture group                       *)
(*    "<"                   opens the named group (?P<first> ... )         *)
(* A template is a sequence of literal characters and of the references    *)
(* "$0", "$1", "$2" (by index) and "$first" (by name).                     *)
(*                                                                         *)
(* Three specifications share the variables.  Spec is the serial host:     *)
(* whole init and map calls, one after the other; `last` is the last call  *)
(* with its outcome and `initFailed` tells whether an init call has        *)
(* returned an error.  SpecConc is the host of section 5 that makes no     *)
(* promise about interleaving: each invocation in `inv` takes its access   *)
(* to the cell OPS as a step of its own.  SpecUnit calls the functions     *)
(* below the entry points directly, as the unit tests of lib.rs do.        *)
(***************************************************************************)
EXTENDS Integers, Sequences, FiniteSets, TLC

VARIABLES OPS, last, initFailed, inv

vars == <<OPS, last, initFailed, inv>>

\* ------------------------------------------------------------------ bounds

\* Longest operation list of a configuration document.
MaxOps == 2
\* Longest record value, in bytes.
MaxLen == 2
\* Invocations of the entry points that may be in flight together.
MaxCalls == 3
\* Tokens of a pattern and characters of a text in the calls of one operation.
MaxPat == 3
MaxText == 3

\* ------------------------------------------------------------------ values

None == [some |-> FALSE]
Some(x) == [some |-> TRUE, val |-> x]

Ok(x) == [tag |-> "Ok", val |-> x]
Err(e) == [tag |-> "Err", err |-> e]
Panic(m) == [tag |-> "Panic", msg |-> m]

PARAM_NAME == "spec"

\* ------------------------------------------------------------------ regex

Digits == {"0", "1", "2", "3", "4", "5", "6", "7", "8", "9"}

\* One item of a compiled pattern against one character.
ClassMatches(cls, c) == IF cls = "d" THEN c \in Digits ELSE c = cls

RegexError(pat, msg) == Err([kind |-> "RegexSyntax", pattern |-> pat, msg |-> msg])

\* The parser of Regex::new: scans the tokens left to right, keeps the stack
\* of open groups, and reports the first syntax error it meets.
RECURSIVE ParseRe(_, _, _, _, _)
ParseRe(pat, i, items, groups, open) ==
  IF i > Len(pat)
  THEN IF open # <<>>
       THEN RegexError(pat, "unclosed group")
       ELSE Ok([pattern |-> pat, items |-> items, groups |-> groups])
  ELSE LET t == pat[i] IN
       CASE t = "(" ->
              ParseRe(pat, i + 1, items,
                      Append(groups, [name |-> "", from |-> Len(items), to |-> Len(items)]),
                      Append(open, Len(groups) + 1))
         [] t = "<" ->
              IF \E g \in 1..Len(groups) : groups[g].name = "first"
              THEN RegexError(pat, "duplicate capture group name")
              ELSE ParseRe(pat, i + 1, items,
                           Append(groups, [name |-> "first", from |-> Len(items), to |-> Len(items)]),
                           Append(open, Len(groups) + 1))
         [] t = ")" ->
              IF open = <<>>
              THEN RegexError(pat, "unopened group")
              ELSE ParseRe(pat, i + 1, items,
                           [groups EXCEPT ![open[Len(open)]].to = Len(items)],
                           SubSeq(open, 1, Len(open) - 1))
         [] OTHER -> ParseRe(pat, i + 1, Append(items, t), groups, open)

RegexNew(pat) == ParseRe(pat, 1, <<>>, <<>>, <<>>)

\* The compiled pattern matches the text at offset p (0-based).
MatchesAt(re, text, p) ==
  /\ p + Len(re.items) <= Len(text)
  /\ \A k \in 1..Len(re.items) : ClassMatches(re.items[k], text[p + k])

\* The text of one template reference for the match at offset p.
Capture(re, text, p, ref) ==
  LET n == Len(re.items)
      byIndex(k) == IF k <= Len(re.groups)
                    THEN SubSeq(text, p + re.groups[k].from + 1, p + re.groups[k].to)
                    ELSE <<>>
      named == {g \in 1..Len(re.groups) : re.groups[g].name = "first"}
  IN CASE ref = "$0" -> SubSeq(text, p + 1, p + n)
       [] ref = "$1" -> byIndex(1)
       [] ref = "$2" -> byIndex(2)
       [] ref = "$first" -> IF named = {} THEN <<>> ELSE byIndex(CHOOSE g \in named : TRUE)

References == {"$0", "$1", "$2", "$first"}

\* The template instantiated for the match at offset p.
RECURSIVE Expand(_, _, _, _, _)
Expand(re, text, p, with, j) ==
  IF j > Len(with) THEN <<>>
  ELSE (IF with[j] \in References
        THEN Capture(re, text, p, with[j])
        ELSE <<with[j]>>) \o Expand(re, text, p, with, j + 1)

\* A replace that stops after the first match (Regex::replace).
RECURSIVE ReplaceFrom_FirstOnly(_, _, _, _)
ReplaceFrom_FirstOnly(re, text, p, with) ==
  IF p > Len(text) THEN <<>>
  ELSE IF MatchesAt(re, text, p)
       THEN Expand(re, text, p, with, 1) \o SubSeq(text, p + Len(re.items) + 1, Len(text))
       ELSE IF p < Len(text)
            THEN <<text[p + 1]>> \o ReplaceFrom_FirstOnly(re, text, p + 1, with)
            ELSE <<>>

\* replace_all from offset p on: leftmost non-overlapping matches; after an
\* empty match the scan moves on by one character.
RECURSIVE ReplaceFrom(_, _, _, _)
ReplaceFrom(re, text, p, with) ==
  LET n == Len(re.items)
      next == IF p < Len(text) THEN <<text[p + 1]>> \o ReplaceFrom(re, text, p + 1, with)
              ELSE <<>>
  IN IF p > Len(text) THEN <<>>
     ELSE IF MatchesAt(re, text, p)
          THEN Expand(re, text, p, with, 1)
               \o (IF n = 0 THEN next ELSE ReplaceFrom(re, text, p + n, with))
          ELSE next

ReplaceAll(re, text, with) == ReplaceFrom(re, text, 0, with)

\* ------------------------------------------------------------------ Operation

get_re(op) == op.re

\* A clone that checks the pattern and does not keep the compiled matcher.
clone_with_regex_NoStore(op) ==
  LET r == RegexNew(op.regex) IN
  IF r.tag = "Err" THEN r
  ELSE Ok(op)

clone_with_regex(op) ==
  LET r == RegexNew(op.regex) IN
  IF r.tag = "Err" THEN r
  ELSE Ok([op EXCEPT !.re = Some(r.val)])

run_regex(op, text) == ReplaceAll(op.re.val, text, op.with)

\* ------------------------------------------------------------------ JSON

Space == " "
Quote == "\""

DigitVal(c) ==
  CASE c = "0" -> 0 [] c = "1" -> 1 [] c = "2" -> 2 [] c = "3" -> 3 [] c = "4" -> 4
    [] c = "5" -> 5 [] c = "6" -> 6 [] c = "7" -> 7 [] c = "8" -> 8 [] c = "9" -> 9

DigitChar(n) ==
  CASE n = 0 -> "0" [] n = 1 -> "1" [] n = 2 -> "2" [] n = 3 -> "3" [] n = 4 -> "4"
    [] n = 5 -> "5" [] n = 6 -> "6" [] n = 7 -> "7" [] n = 8 -> "8" [] n = 9 -> "9"

\* The index of the first character at or after i that is not whitespace.
RECURSIVE SkipWs(_, _)
SkipWs(text, i) ==
  IF i <= Len(text) /\ text[i] = Space THEN SkipWs(text, i + 1) ELSE i

\* The index after the digits that start at i.
RECURSIVE ScanDigits(_, _)
ScanDigits(text, i) ==
  IF i <= Len(text) /\ text[i] \in Digits THEN ScanDigits(text, i + 1) ELSE i

\* The index of the quote that closes the string opened before i, 0 if none.
RECURSIVE ScanString(_, _)
ScanString(text, i) ==
  IF i > Len(text) THEN 0
  ELSE IF text[i] = Quote THEN i ELSE ScanString(text, i + 1)

RECURSIVE DigitsToNat(_, _)
DigitsToNat(ds, acc) ==
  IF ds = <<>> THEN acc ELSE DigitsToNat(Tail(ds), acc * 10 + DigitVal(Head(ds)))

RECURSIVE NatToDigits(_)
NatToDigits(n) ==
  IF n < 10 THEN <<DigitChar(n)>> ELSE Append(NatToDigits(n \div 10), DigitChar(n % 10))

JsonError(msg) == Err([kind |-> "Json", msg |-> msg])

\* serde_json::from_str::<Value> on the fragment of JSON the texts can spell:
\* whitespace, a number, or a string, and nothing after the value.  The
\* numbers the bounded texts spell are unsigned integers well inside u64,
\* which serde_json keeps exact.
JsonFromStr(text) ==
  LET i == SkipWs(text, 1) IN
  IF i > Len(text) THEN JsonError("EOF while parsing a value")
  ELSE IF text[i] \in Digits
  THEN LET j == IF text[i] = "0" THEN i + 1 ELSE ScanDigits(text, i) IN
       IF SkipWs(text, j) <= Len(text) THEN JsonError("trailing characters")
       ELSE Ok([t |-> "Number", n |-> DigitsToNat(SubSeq(text, i, j - 1), 0)])
  ELSE IF text[i] = Quote
  THEN LET j == ScanString(text, i + 1) IN
       IF j = 0 THEN JsonError("EOF while parsing a string")
       ELSE IF SkipWs(text, j + 1) <= Len(text) THEN JsonError("trailing characters")
       ELSE Ok([t |-> "String", s |-> SubSeq(text, i + 1, j - 1)])
  ELSE JsonError("expected value")

\* serde_json::to_string of a Value.
JsonToString(v) ==
  IF v.t = "Number" THEN NatToDigits(v.n) ELSE <<Quote>> \o v.s \o <<Quote>>

\* ------------------------------------------------------------------ UTF-8

InvalidByte == "xFF"

\* std::str::from_utf8 on the record value.
from_utf8(bytes) ==
  IF \E k \in 1..Len(bytes) : bytes[k] = InvalidByte
  THEN Err([kind |-> "Utf8"])
  ELSE Ok(bytes)

\* ------------------------------------------------------------------ configuration

\* params.get(name)
ParamsGet(params, name) ==
  IF name \in DOMAIN params THEN Some(params[name]) ELSE None

\* serde_json::from_str::<Vec<Operation>> on the raw `spec` text: the text
\* must be JSON, an array, and every element the externally tagged variant
\* `replace` of Operation; `re` is skipped by serde and starts as None.
SpecFromStr(raw) ==
  IF raw.json # "array" THEN JsonError("invalid type or syntax")
  ELSE IF \E k \in 1..Len(raw.entries) : raw.entries[k].tag # "replace"
  THEN JsonError("unknown variant")
  ELSE Ok([k \in 1..Len(raw.entries) |->
             [regex |-> raw.entries[k].regex, with |-> raw.entries[k].with, re |-> None]])

\* A lookup that reports a missing parameter as a parameter it cannot parse.
get_params_SameError(params) ==
  LET raw_spec == ParamsGet(params, PARAM_NAME) IN
  IF raw_spec.some
  THEN LET parsed == SpecFromStr(raw_spec.val) IN
       IF parsed.tag = "Ok" THEN parsed
       ELSE Err([kind |-> "Msg", msg |-> "cannot parse spec param", cause |-> parsed.err])
  ELSE Err([kind |-> "Msg", msg |-> "cannot parse spec param",
            cause |-> [kind |-> "Json", msg |-> "EOF while parsing a value"]])

\* (The eprintln of the parse failure writes to stderr only and is left out.)
get_params(params) ==
  LET raw_spec == ParamsGet(params, PARAM_NAME) IN
  IF raw_spec.some
  THEN LET parsed == SpecFromStr(raw_spec.val) IN
       IF parsed.tag = "Ok" THEN parsed
       ELSE Err([kind |-> "Msg", msg |-> "cannot parse spec param", cause |-> parsed.err])
  ELSE Err([kind |-> "MissingParam", name |-> PARAM_NAME])

\* A loop that puts each compiled operation in front of the ones before it.
RECURSIVE CompileFrom_Prepend(_, _, _)
CompileFrom_Prepend(operations, i, result) ==
  IF i > Len(operations) THEN Ok(result)
  ELSE LET c == clone_with_regex(operations[i]) IN
       IF c.tag = "Err" THEN c
       ELSE CompileFrom_Prepend(operations, i + 1, <<c.val>> \o result)

\* A loop that goes on after an error and returns the last error it met.
RECURSIVE CompileFrom_LastError(_, _, _)
CompileFrom_LastError(operations, i, result) ==
  IF i > Len(operations) THEN Ok(result)
  ELSE LET c == clone_with_regex(operations[i])
           rest == CompileFrom_LastError(operations, i + 1,
                                         IF c.tag = "Err" THEN result ELSE Append(result, c.val))
       IN IF c.tag = "Err" /\ rest.tag = "Ok" THEN c ELSE rest

\* The loop of compile_regex from operation i on, `result` being the vector
\* built so far; `?` returns the first error and drops `result`.
RECURSIVE CompileFrom(_, _, _)
CompileFrom(operations, i, result) ==
  IF i > Len(operations) THEN Ok(result)
  ELSE LET c == clone_with_regex(operations[i]) IN
       IF c.tag = "Err" THEN c
       ELSE CompileFrom(operations, i + 1, Append(result, c.val))

compile_regex(operations) == CompileFrom(operations, 1, <<>>)

\* ------------------------------------------------------------------ per record

\* A loop that hands the text on only when an operation produced it.
RECURSIVE ApplyFrom_Taken(_, _, _)
ApplyFrom_Taken(ops, i, data) ==
  IF i > Len(ops) THEN (IF ops = <<>> THEN <<>> ELSE data)
  ELSE ApplyFrom_Taken(ops, i + 1,
                       IF get_re(ops[i]).some THEN run_regex(ops[i], data) ELSE data)

\* A loop that applies the last operation first.
RECURSIVE ApplyFrom_Reversed(_, _, _)
ApplyFrom_Reversed(ops, i, data) ==
  IF i > Len(ops) THEN data
  ELSE IF get_re(ops[i]).some
       THEN run_regex(ops[i], ApplyFrom_Reversed(ops, i + 1, data))
       ELSE ApplyFrom_Reversed(ops, i + 1, data)

\* The loop of apply_regex_ops_to_json_record from operation i on.
RECURSIVE ApplyFrom(_, _, _)
ApplyFrom(ops, i, data) ==
  IF i > Len(ops) THEN data
  ELSE ApplyFrom(ops, i + 1,
                 IF get_re(ops[i]).some THEN run_regex(ops[i], data) ELSE data)

\* An apply that emits the text as a JSON string when it does not parse.
apply_regex_ops_to_json_record_BestEffort(record, ops) ==
  LET data_str == from_utf8(record.value) IN
  IF data_str.tag = "Err" THEN data_str
  ELSE LET data == ApplyFrom(ops, 1, data_str.val)
           parsed == JsonFromStr(data)
       IN IF parsed.tag = "Ok" THEN parsed ELSE Ok([t |-> "String", s |-> data])

apply_regex_ops_to_json_record(record, ops) ==
  LET data_str == from_utf8(record.value) IN
  IF data_str.tag = "Err" THEN data_str
  ELSE JsonFromStr(ApplyFrom(ops, 1, data_str.val))

NotInitialized == [kind |-> "Msg", msg |-> "regex operations not initialized"]

\* A map that emits the text after the operations as it is.
MapResult_RawText(cell, record) ==
  IF ~cell.some THEN Err(NotInitialized)
  ELSE LET result == apply_regex_ops_to_json_record(record, cell.val) IN
       IF result.tag = "Err" THEN result
       ELSE Ok([key |-> record.key, value |-> ApplyFrom(cell.val, 1, record.value)])

\* A map that runs the operations on the key as well.
MapResult_KeyThroughPipeline(cell, record) ==
  IF ~cell.some THEN Err(NotInitialized)
  ELSE LET result == apply_regex_ops_to_json_record(record, cell.val) IN
       IF result.tag = "Err" THEN result
       ELSE Ok([key |-> IF record.key.some
                        THEN Some(ApplyFrom(cell.val, 1, record.key.val))
                        ELSE None,
                value |-> JsonToString(result.val)])

\* A map that decodes the record before it looks at the cell.
MapResult_DecodeFirst(cell, record) ==
  LET data_str == from_utf8(record.value) IN
  IF data_str.tag = "Err" THEN data_str
  ELSE IF ~cell.some THEN Err(NotInitialized)
  ELSE LET result == apply_regex_ops_to_json_record(record, cell.val) IN
       IF result.tag = "Err" THEN result
       ELSE Ok([key |-> record.key, value |-> JsonToString(result.val)])

\* A map that runs the empty pipeline when the cell is unset.
MapResult_DefaultPipeline(cell, record) ==
  LET result == apply_regex_ops_to_json_record(record, IF cell.some THEN cell.val ELSE <<>>) IN
  IF result.tag = "Err" THEN result
  ELSE Ok([key |-> record.key, value |-> JsonToString(result.val)])

\* What map returns for a record when the cell holds `cell`.
MapResult(cell, record) ==
  LET key == record.key IN
  IF ~cell.some THEN Err(NotInitialized)
  ELSE LET result == apply_regex_ops_to_json_record(record, cell.val) IN
       IF result.tag = "Err" THEN result
       ELSE Ok([key |-> key, value |-> JsonToString(result.val)])

\* The operations that compile before the first one that does not.
RECURSIVE CompiledPrefix(_, _, _)
CompiledPrefix(operations, i, result) ==
  IF i > Len(operations) THEN result
  ELSE LET c == clone_with_regex(operations[i]) IN
       IF c.tag = "Err" THEN result
       ELSE CompiledPrefix(operations, i + 1, Append(result, c.val))

\* An init that installs each operation as soon as it is compiled.
InitResult_InstallEarly(cell, params) ==
  LET ops == get_params(params) IN
  IF ops.tag = "Err" THEN [res |-> ops, cell |-> cell]
  ELSE LET regex_ops == compile_regex(ops.val) IN
       IF regex_ops.tag = "Err"
       THEN [res |-> regex_ops,
             cell |-> IF cell.some THEN cell
                      ELSE Some(CompiledPrefix(ops.val, 1, <<>>))]
       ELSE IF cell.some
            THEN [res |-> Panic("regex operations already initialized"), cell |-> cell]
            ELSE [res |-> Ok(<<>>), cell |-> Some(regex_ops.val)]

\* An init that stores into a plain global: a second call overwrites.
InitResult_Overwrite(cell, params) ==
  LET ops == get_params(params) IN
  IF ops.tag = "Err" THEN [res |-> ops, cell |-> cell]
  ELSE LET regex_ops == compile_regex(ops.val) IN
       IF regex_ops.tag = "Err" THEN [res |-> regex_ops, cell |-> cell]
       ELSE [res |-> Ok(<<>>), cell |-> Some(regex_ops.val)]

\* An init that ignores the result of the store into the cell.
InitResult_SetIgnored(cell, params) ==
  LET ops == get_params(params) IN
  IF ops.tag = "Err" THEN [res |-> ops, cell |-> cell]
  ELSE LET regex_ops == compile_regex(ops.val) IN
       IF regex_ops.tag = "Err" THEN [res |-> regex_ops, cell |-> cell]
       ELSE [res |-> Ok(<<>>), cell |-> IF cell.some THEN cell ELSE Some(regex_ops.val)]

\* What init returns when the cell holds `cell`, and what the cell holds after.
InitResult(cell, params) ==
  LET ops == get_params(params) IN
  IF ops.tag = "Err" THEN [res |-> ops, cell |-> cell]
  ELSE LET regex_ops == compile_regex(ops.val) IN
       IF regex_ops.tag = "Err" THEN [res |-> regex_ops, cell |-> cell]
       ELSE IF cell.some
            THEN [res |-> Panic("regex operations already initialized"), cell |-> cell]
            ELSE [res |-> Ok(<<>>), cell |-> Some(regex_ops.val)]

\* ------------------------------------------------------------------ inputs

SeqsUpTo(S, n) == UNION {[1..k -> S] : k \in 0..n}

OpA == [tag |-> "replace", regex |-> <<"a">>, with |-> <<"1">>]
OpB == [tag |-> "replace", regex |-> <<"<", "d", ")">>, with |-> <<"$first", "a">>]
OpX == [tag |-> "replace", regex |-> <<"(", "d">>, with |-> <<"a">>]
OpY == [tag |-> "replace", regex |-> <<"d", ")">>, with |-> <<"a">>]
OpU == [tag |-> "upper", regex |-> <<"a">>, with |-> <<"1">>]
\* A pattern without groups and a template that names one.
OpR == [tag |-> "replace", regex |-> <<"d">>, with |-> <<"$first", "1">>]

Entries == {OpA, OpB, OpX, OpY}

\* The raw `spec` texts: text that is not JSON, JSON that is not an array, an
\* array with an element of an unknown variant, and arrays of replace entries.
RawSpecs ==
  {[json |-> "malformed", entries |-> <<>>], [json |-> "object", entries |-> <<>>],
   [json |-> "array", entries |-> <<OpA, OpU>>]}
  \cup {[json |-> "array", entries |-> es] : es \in SeqsUpTo(Entries, MaxOps)}

\* The extra parameters of an init call: with `spec`, or with another name only.
Params == {[spec |-> raw] : raw \in RawSpecs} \cup {[other |-> <<"1">>]}

Bytes == {"1", Quote, Space, InvalidByte}

\* The key, when present, holds a digit, which the patterns would match.
Records == {[key |-> k, value |-> v] : k \in {None, Some(<<"1">>)}, v \in SeqsUpTo(Bytes, MaxLen)}

\* ------------------------------------------------------------------ the stage

IsConfigError(res) == res.tag = "Err"

\* An invocation that has not started.
Idle == [pc |-> "idle"]

Calls == 1..MaxCalls

Init ==
  /\ OPS = None
  /\ last = [call |-> "none"]
  /\ initFailed = FALSE
  /\ inv = [i \in Calls |-> Idle]

init(params) ==
  LET r == InitResult(OPS, params) IN
  /\ OPS' = r.cell
  /\ last' = [call |-> "init", params |-> params, res |-> r.res]
  /\ initFailed' = (initFailed \/ IsConfigError(r.res))
  /\ UNCHANGED inv

\* A map that drops the pipeline when a record fails.
map_DropOnError(record) ==
  LET res == MapResult(OPS, record) IN
  /\ last' = [call |-> "map", record |-> record, res |-> res]
  /\ OPS' = IF res.tag = "Err" THEN None ELSE OPS
  /\ UNCHANGED <<initFailed, inv>>

map(record) ==
  /\ last' = [call |-> "map", record |-> record, res |-> MapResult(OPS, record)]
  /\ UNCHANGED <<OPS, initFailed, inv>>

Next ==
  \/ \E params \in Params : init(params)
  \/ \E record \in Records : map(record)

Spec == Init /\ [][Next]_vars

\* ------------------------------------------------------------------ properties

Ready == OPS.some
Uninitialized == ~OPS.some

HasInvalidByte(bytes) == \E k \in 1..Len(bytes) : bytes[k] = InvalidByte

\* C1: a map call made while no init call has succeeded fails with the
\* dedicated 'regex operations not initialized' error, whatever the record
\* holds (also one whose value is not UTF-8 or not JSON); that error is none
\* of the per-record errors, and no output record is produced.
C1_UninitializedMapRefused ==
  (last.call = "map" /\ Uninitialized) =>
    /\ last.res.tag = "Err"
    /\ last.res.err = NotInitialized
    /\ last.res.err.kind \notin {"Utf8", "Json"}

C1_Witness ==
  /\ last.call = "map"
  /\ Uninitialized
  /\ HasInvalidByte(last.record.value)
  /\ last.res = Err(NotInitialized)

\* C2: an init call that fails (parameter missing, spec not parseable, a
\* pattern that does not compile) leaves the cell as it was before the call,
\* so no partially compiled list is visible; when the cell was unset it is
\* still unset and every following map call is refused.
C2_FailedInitInstallsNothing ==
  [][(last'.call = "init" /\ last'.res.tag = "Err") =>
       /\ OPS' = OPS
       /\ (~OPS.some =>
             \A r \in Records : MapResult(OPS', r) = Err(NotInitialized))]_vars

C2_Witness ==
  /\ last.call = "init"
  /\ last.res.tag = "Err"
  /\ last.res.err.kind = "RegexSyntax"
  /\ last.params.spec.entries = <<OpA, OpX>>
  /\ Uninitialized

\* C3: once the cell is set it holds the same list in every later state:
\* no init call (valid or invalid) and no map call (succeeding or failing)
\* replaces, reorders, extends or clears it.
C3_PipelineImmutable == [][OPS.some => OPS' = OPS]_vars

C3_Witness ==
  /\ Ready
  /\ last.call = "init"
  /\ last.res.tag = "Panic"
  /\ last.params.spec.entries # <<>>
  /\ OPS.val = <<>>

\* A pattern of the fragment is well formed when its groups are balanced and
\* the group name is used at most once.
Opens(pat, k) == Cardinality({i \in 1..k : pat[i] \in {"(", "<"}})
Closes(pat, k) == Cardinality({i \in 1..k : pat[i] = ")"})
WellFormedPattern(pat) ==
  /\ \A k \in 0..Len(pat) : Closes(pat, k) <= Opens(pat, k)
  /\ Closes(pat, Len(pat)) = Opens(pat, Len(pat))
  /\ Cardinality({i \in 1..Len(pat) : pat[i] = "<"}) <= 1

\* The parameters hold a `spec` that is an array of replace entries.
ConfigParses(params) ==
  /\ PARAM_NAME \in DOMAIN params
  /\ params.spec.json = "array"
  /\ \A k \in 1..Len(params.spec.entries) : params.spec.entries[k].tag = "replace"

ConfigValid(params) ==
  /\ ConfigParses(params)
  /\ \A k \in 1..Len(params.spec.entries) : WellFormedPattern(params.spec.entries[k].regex)

AlreadyInitialized == Panic("regex operations already initialized")

\* C4 as stated: every init call made when the cell is already set ends in
\* the fatal 'already initialized' outcome, whatever its configuration.
C4_Original ==
  [][(OPS.some /\ last'.call = "init") => last'.res = AlreadyInitialized]_vars

\* C4 as amended: an init call made when the cell is already set never
\* succeeds and never changes the cell; it ends in the fatal 'already
\* initialized' outcome exactly when its configuration is valid, and returns
\* the ordinary configuration error otherwise (the parameter lookup, the parse
\* and the compilation all come before the store into the cell).
C4_SecondInitOutcome ==
  [][(OPS.some /\ last'.call = "init") =>
       /\ OPS' = OPS
       /\ IF ConfigValid(last'.params)
          THEN last'.res = AlreadyInitialized
          ELSE last'.res.tag = "Err"]_vars

C4_Witness ==
  /\ Ready
  /\ last.call = "init"
  /\ last.res.tag = "Err"
  /\ last.res.err.kind = "MissingParam"

\* The composition op_n(...op_2(op_1(t))...) of the first n operations.
RECURSIVE Compose(_, _, _)
Compose(ops, n, t) ==
  IF n = 0 THEN t ELSE run_regex(ops[n], Compose(ops, n - 1, t))

\* The record map returns for a post-pipeline text.
Finish(key, text) ==
  LET j == JsonFromStr(text) IN
  IF j.tag = "Ok" THEN Ok([key |-> key, value |-> JsonToString(j.val)]) ELSE j

\* C5: the text handed to JSON validation is op_n(...op_2(op_1(t))...):
\* the operations are applied in declared order, each to the output of the
\* one before it, none skipped or repeated.
C5_StrictLeftFold ==
  (last.call = "map" /\ Ready /\ ~HasInvalidByte(last.record.value)) =>
    last.res = Finish(last.record.key,
                      Compose(OPS.val, Len(OPS.val), last.record.value))

\* [OpB, OpA] on "1": OpB gives "1a", OpA then gives "11"; the reverse order
\* gives "1a", which is not JSON.
C5_Witness ==
  /\ last.call = "map"
  /\ Ready
  /\ Len(OPS.val) = 2
  /\ OPS.val[1].regex = OpB.regex
  /\ OPS.val[2].regex = OpA.regex
  /\ last.record.value = <<"1">>
  /\ last.res = Ok([key |-> last.record.key, value |-> <<"1", "1">>])
  /\ JsonFromStr(run_regex(OPS.val[1], run_regex(OPS.val[2], <<"1">>))).tag = "Err"

\* The texts of the JSON fragment: a number or a string between whitespace.
IsJsonText(text) ==
  \E i \in 1..Len(text) : \E j \in i..Len(text) :
    /\ \A k \in 1..(i - 1) : text[k] = Space
    /\ \A k \in (j + 1)..Len(text) : text[k] = Space
    /\ \/ /\ \A k \in i..j : text[k] \in Digits
          /\ (text[i] = "0" => i = j)
       \/ /\ i < j
          /\ text[i] = Quote
          /\ text[j] = Quote
          /\ \A k \in (i + 1)..(j - 1) : text[k] # Quote

\* C6: a map call in the Ready state ends either in a complete output record
\* or in an error without output; it fails exactly when the value is not
\* UTF-8 or the text after all operations is not JSON.
C6_MapAllOrNothing ==
  (last.call = "map" /\ Ready) =>
    LET v == last.record.value
        out == Compose(OPS.val, Len(OPS.val), v)
    IN /\ last.res.tag \in {"Ok", "Err"}
       /\ HasInvalidByte(v) => last.res = Err([kind |-> "Utf8"])
       /\ (~HasInvalidByte(v) /\ ~IsJsonText(out)) =>
            (last.res.tag = "Err" /\ last.res.err.kind = "Json")
       /\ (~HasInvalidByte(v) /\ IsJsonText(out)) =>
            /\ last.res.tag = "Ok"
            /\ DOMAIN last.res.val = {"key", "value"}
            /\ IsJsonText(last.res.val.value)
       /\ last.res.tag = "Err" => DOMAIN last.res = {"tag", "err"}

\* A value that is JSON before the pipeline and is not JSON after it.
C6_Witness ==
  /\ last.call = "map"
  /\ Ready
  /\ IsJsonText(last.record.value)
  /\ last.res.tag = "Err"
  /\ last.res.err.kind = "Json"

\* C7: a map call that fails in the Ready state changes nothing but the
\* reported outcome: the stage is still Ready with the same list, which is
\* all that the outcome of map on a later record depends on, and the failed
\* record run again gets the outcome it got.
C7_RecordErrorIsLocal ==
  [][(Ready /\ last'.call = "map" /\ last'.res.tag = "Err") =>
       /\ OPS'.some
       /\ OPS' = OPS
       /\ initFailed' = initFailed
       /\ MapResult(OPS', last'.record) = last'.res]_vars

C7_Witness ==
  /\ Ready
  /\ OPS.val # <<>>
  /\ last.call = "map"
  /\ last.res.tag = "Err"
  /\ last.res.err.kind = "Utf8"

\* C8 as stated: once an init call has failed, no record is processed
\* successfully in any later state.
C8_Original ==
  initFailed => ~(last.call = "map" /\ last.res.tag = "Ok")

\* C8 as amended: a failed init is not remembered.  While the cell is unset
\* every map call is refused and a further failing init leaves it unset, but
\* the next init call with a valid configuration succeeds and installs its
\* pipeline, after which records are processed; a failed init made when the
\* cell is set leaves the installed pipeline in place.
C8_FailedInitNotLatched ==
  [][initFailed =>
       IF Uninitialized
       THEN /\ last'.call = "map" => last'.res = Err(NotInitialized)
            /\ (last'.call = "init" /\ ~ConfigValid(last'.params)) =>
                 (last'.res.tag = "Err" /\ ~OPS'.some)
            /\ (last'.call = "init" /\ ConfigValid(last'.params)) =>
                 (last'.res.tag = "Ok" /\ OPS'.some)
       ELSE OPS' = OPS]_vars

\* An init that succeeds after an earlier init failed.
C8_Witness ==
  /\ initFailed
  /\ last.call = "init"
  /\ last.res.tag = "Ok"
  /\ Ready

\* The operations get_params hands to compile_regex for the last init call.
LastOperations == get_params(last.params).val

\* C9: when compile_regex succeeds on N operations the result has N
\* operations in the same order, each with the pattern text and template of
\* its spec and with a compiled matcher for that pattern; the empty list
\* compiles to the empty pipeline; the first successful init installs
\* exactly that list.
C9_CompilePreservesList ==
  (last.call = "init" /\ ConfigParses(last.params)) =>
    LET operations == LastOperations
        c == compile_regex(operations)
    IN /\ c.tag = "Ok" =>
            /\ Len(c.val) = Len(operations)
            /\ \A k \in 1..Len(operations) :
                 /\ c.val[k].regex = operations[k].regex
                 /\ c.val[k].with = operations[k].with
                 /\ get_re(c.val[k]).some
                 /\ get_re(c.val[k]).val.pattern = operations[k].regex
       /\ operations = <<>> => c = Ok(<<>>)
       /\ last.res.tag = "Ok" => OPS = Some(c.val)

C9_Witness ==
  /\ last.call = "init"
  /\ last.res.tag = "Ok"
  /\ last.params.spec.entries = <<OpB, OpA>>
  /\ Len(OPS.val) = 2
  /\ OPS.val[1].with = OpB.with
  /\ OPS.val[2].with = OpA.with

\* C10: compile_regex fails exactly when some pattern of the list is not
\* well formed; the error is the one of the first such pattern in list order
\* and carries its text; init returns that error.
C10_FirstInvalidPattern ==
  (last.call = "init" /\ ConfigParses(last.params)) =>
    LET operations == LastOperations
        c == compile_regex(operations)
        bad == {k \in 1..Len(operations) : ~WellFormedPattern(operations[k].regex)}
    IN /\ c.tag = "Err" <=> bad # {}
       /\ bad # {} =>
            LET first == CHOOSE k \in bad : \A m \in bad : k <= m IN
            /\ DOMAIN c = {"tag", "err"}
            /\ c.err.kind = "RegexSyntax"
            /\ c.err.pattern = operations[first].regex
            /\ c.err = RegexNew(operations[first].regex).err
            /\ last.res = c

\* Two different invalid patterns: the error names the first.
C10_Witness ==
  /\ last.call = "init"
  /\ ConfigParses(last.params)
  /\ last.params.spec.entries = <<OpY, OpX>>
  /\ last.res.tag = "Err"
  /\ last.res.err.pattern = OpY.regex
  /\ last.res.err.msg = "unopened group"

\* C12: the empty pipeline is the identity on the text: a map call in the
\* Ready state with zero operations hands the input text, byte for byte, to
\* JSON validation, so its outcome is the one the input text itself gives.
C12_EmptyPipelineIsIdentity ==
  (last.call = "map" /\ Ready /\ OPS.val = <<>> /\ ~HasInvalidByte(last.record.value)) =>
    /\ ApplyFrom(OPS.val, 1, last.record.value) = last.record.value
    /\ last.res = Finish(last.record.key, last.record.value)

C12_Witness ==
  /\ last.call = "map"
  /\ Ready
  /\ OPS.val = <<>>
  /\ last.record.value = <<Quote, Quote>>
  /\ last.res = Ok([key |-> last.record.key, value |-> <<Quote, Quote>>])

\* The text after the operations of the installed pipeline for the record of
\* a map call.
PostText(call) == ApplyFrom(OPS.val, 1, call.record.value)

\* A text without the whitespace around it.
Strip(text) ==
  LET inside == {k \in 1..Len(text) : text[k] # Space} IN
  IF inside = {} THEN <<>>
  ELSE SubSeq(text, CHOOSE k \in inside : \A m \in inside : k <= m,
                    CHOOSE k \in inside : \A m \in inside : m <= k)

MapOk(call) == call.call = "map" /\ call.res.tag = "Ok"

\* C13: the value of the record a successful map call returns is the
\* serialization of the JSON value parsed from the text after the operations
\* (the compact text of that value, without the whitespace around it), not
\* that text itself; two successful calls whose texts after the operations
\* parse to the same JSON value return the same value.
C13_OutputIsReserialized ==
  /\ [](MapOk(last) =>
          /\ last.res.val.value = JsonToString(JsonFromStr(PostText(last)).val)
          /\ last.res.val.value = Strip(PostText(last))
          /\ JsonFromStr(last.res.val.value) = JsonFromStr(PostText(last)))
  /\ [][(MapOk(last) /\ MapOk(last')
          /\ JsonFromStr(PostText(last)) = JsonFromStr(PostText(last'))) =>
           last'.res.val.value = last.res.val.value]_vars

\* The text after the operations is " 1"; the value returned is "1".
C13_Witness ==
  /\ MapOk(last)
  /\ PostText(last) = <<Space, "1">>
  /\ last.res.val.value = <<"1">>
  /\ last.res.val.value # PostText(last)

\* C14: the record a successful map call returns has the key of the input
\* record: absent stays absent, a key that is present is returned as it is,
\* also when the operations match its bytes and rewrite the value.
C14_KeyPreserved ==
  MapOk(last) => last.res.val.key = last.record.key

\* [OpB, OpA] rewrites the value "1" to "11"; the key "1" is returned as "1".
C14_Witness ==
  /\ MapOk(last)
  /\ last.record.key = Some(<<"1">>)
  /\ last.record.value = <<"1">>
  /\ last.res.val.value = <<"1", "1">>
  /\ last.res.val.key = Some(<<"1">>)

MissingParam == Err([kind |-> "MissingParam", name |-> PARAM_NAME])

\* C17: an init call whose parameters do not hold `spec` returns the
\* MissingParam error that names the parameter; one whose `spec` is present
\* and is not JSON, not an array, or holds an unknown operation returns the
\* 'cannot parse spec param' error; neither error is returned for the other
\* cause, whatever the cell holds.
C17_MissingParamIsDistinct ==
  last.call = "init" =>
    /\ PARAM_NAME \notin DOMAIN last.params <=> last.res = MissingParam
    /\ (PARAM_NAME \in DOMAIN last.params /\ ~ConfigParses(last.params)) <=>
         (/\ last.res.tag = "Err"
          /\ last.res.err.kind = "Msg"
          /\ last.res.err.msg = "cannot parse spec param")

\* The parameter is missing in a call made after a call with a malformed one.
C17_Witness ==
  /\ last.call = "init"
  /\ DOMAIN last.params = {"other"}
  /\ last.res = MissingParam
  /\ initFailed
  /\ Uninitialized

\* The operations the guard of the loop in apply_regex_ops_to_json_record skips.
Skipped(ops) == {k \in 1..Len(ops) : ~get_re(ops[k]).some}

\* C19: every operation of an installed pipeline carries its compiled
\* matcher, the one Regex::new gives for its pattern; so the guard of the
\* loop skips no operation of a map call and the unwrap in run_regex finds a
\* matcher.  The lists the guard skips in are lists compile_regex did not
\* return: every list it returns has a matcher in each operation, while the
\* list get_params returns has none.
C19_InstalledOpsAreCompiled ==
  /\ OPS.some =>
       /\ Skipped(OPS.val) = {}
       /\ \A k \in 1..Len(OPS.val) : OPS.val[k].re = Some(RegexNew(OPS.val[k].regex).val)
  /\ (last.call = "init" /\ last.res.tag \in {"Ok", "Panic"}) =>
       /\ Skipped(compile_regex(LastOperations).val) = {}
       /\ Skipped(LastOperations) = 1..Len(LastOperations)

\* A map call that ran the two operations of the installed pipeline.
C19_Witness ==
  /\ MapOk(last)
  /\ Len(OPS.val) = 2
  /\ Skipped(OPS.val) = {}
  /\ last.res.val.value # last.record.value

\* ------------------------------------------------------------------ concurrent invocations

\* OnceCell::set: stores the value when the cell is empty, and hands the
\* value back as an error when it is not; the cell does this atomically.
OnceCellSet_Overwrite(cell, value) == [cell |-> Some(value), res |-> Ok(<<>>)]

OnceCellSet(cell, value) ==
  IF cell.some THEN [cell |-> cell, res |-> Err(value)]
  ELSE [cell |-> Some(value), res |-> Ok(<<>>)]

\* A run_regex that compiles its pattern on each use.
RunRegexCalls_Recompile(op) == 1

\* The Regex::new calls of run_regex: it uses the stored matcher.
RunRegexCalls(op) == 0

\* The Regex::new calls the loop of apply_regex_ops_to_json_record makes.
RECURSIVE ApplyCalls(_, _)
ApplyCalls(ops, i) ==
  IF i > Len(ops) THEN 0
  ELSE (IF get_re(ops[i]).some THEN RunRegexCalls(ops[i]) ELSE 0) + ApplyCalls(ops, i + 1)

\* The configurations and records of the concurrent invocations.
CParams ==
  {[spec |-> [json |-> "array", entries |-> es]] :
     es \in {<<OpA>>, <<OpB, OpA>>, <<OpA, OpX>>, <<OpR>>}}
  \cup {[other |-> <<"1">>]}

CRecords ==
  {[key |-> None, value |-> <<"1">>],
   [key |-> Some(<<"1">>), value |-> <<Space, "1">>],
   [key |-> None, value |-> <<InvalidByte>>]}

Running == [tag |-> "Running"]

\* Invocations start in the order of their numbers.
CanStart(i) == inv[i].pc = "idle" /\ \A j \in 1..(i - 1) : inv[j].pc # "idle"

\* init up to the loop of compile_regex: the parameter lookup and the parse.
InitBegin(i, params) ==
  /\ CanStart(i)
  /\ LET ops == get_params(params) IN
     inv' = [inv EXCEPT ![i] =
               IF ops.tag = "Err"
               THEN [pc |-> "done", call |-> "init", arg |-> params, loc |-> None,
                     res |-> ops, compiles |-> 0]
               ELSE [pc |-> "compile", call |-> "init", arg |-> params,
                     loc |-> [operations |-> ops.val, result |-> <<>>],
                     res |-> Running, compiles |-> 0]]
  /\ UNCHANGED <<OPS, last, initFailed>>

\* One turn of the loop of compile_regex: the next operation is compiled
\* (one Regex::new call) and pushed on the vector of the invocation, or its
\* error is returned; after the last operation the vector goes to the store.
InitCompile(i) ==
  /\ inv[i].pc = "compile"
  /\ LET operations == inv[i].loc.operations
         result == inv[i].loc.result
         k == Len(result) + 1
     IN IF k > Len(operations)
        THEN inv' = [inv EXCEPT ![i].pc = "set", ![i].loc = Some(result)]
        ELSE LET c == clone_with_regex(operations[k]) IN
             inv' = [inv EXCEPT
                       ![i].pc = IF c.tag = "Err" THEN "done" ELSE "compile",
                       ![i].res = IF c.tag = "Err" THEN c ELSE Running,
                       ![i].loc = IF c.tag = "Err" THEN None
                                  ELSE [operations |-> operations,
                                        result |-> Append(result, c.val)],
                       ![i].compiles = inv[i].compiles + 1]
  /\ UNCHANGED <<OPS, last, initFailed>>

\* The store of init into the cell, and its return.
InitSet(i) ==
  /\ inv[i].pc = "set"
  /\ LET r == OnceCellSet(OPS, inv[i].loc.val) IN
     /\ OPS' = r.cell
     /\ inv' = [inv EXCEPT ![i].pc = "done",
                           ![i].res = IF r.res.tag = "Err" THEN AlreadyInitialized
                                      ELSE Ok(<<>>)]
  /\ UNCHANGED <<last, initFailed>>

\* A map that takes the list out of the cell while it works on a record.
MapBegin_Take(i, record) ==
  /\ CanStart(i)
  /\ inv' = [inv EXCEPT ![i] =
               IF OPS.some
               THEN [pc |-> "apply", call |-> "map", arg |-> record, loc |-> OPS,
                     res |-> Running, compiles |-> 0]
               ELSE [pc |-> "done", call |-> "map", arg |-> record, loc |-> None,
                     res |-> Err(NotInitialized), compiles |-> 0]]
  /\ OPS' = None
  /\ UNCHANGED <<last, initFailed>>

\* map up to its read of the cell: it gets the installed list or nothing.
MapBegin(i, record) ==
  /\ CanStart(i)
  /\ inv' = [inv EXCEPT ![i] =
               IF OPS.some
               THEN [pc |-> "apply", call |-> "map", arg |-> record, loc |-> OPS,
                     res |-> Running, compiles |-> 0]
               ELSE [pc |-> "done", call |-> "map", arg |-> record, loc |-> None,
                     res |-> Err(NotInitialized), compiles |-> 0]]
  /\ UNCHANGED <<OPS, last, initFailed>>

\* The rest of map, on the list it got.
MapApply(i) ==
  /\ inv[i].pc = "apply"
  /\ inv' = [inv EXCEPT ![i].pc = "done",
                        ![i].res = MapResult(inv[i].loc, inv[i].arg),
                        ![i].compiles = inv[i].compiles + ApplyCalls(inv[i].loc.val, 1)]
  /\ UNCHANGED <<OPS, last, initFailed>>

NextConc ==
  \E i \in Calls :
    \/ \E params \in CParams : InitBegin(i, params)
    \/ InitCompile(i)
    \/ InitSet(i)
    \/ \E record \in CRecords : MapBegin(i, record)
    \/ MapApply(i)

SpecConc == Init /\ [][NextConc]_vars

Started == {i \in Calls : inv[i].pc # "idle"}
Inits == {i \in Started : inv[i].call = "init"}
Maps == {i \in Started : inv[i].call = "map"}
Done == {i \in Started : inv[i].pc = "done"}

\* The Regex::new calls made so far by the invocations of S.
RECURSIVE SumCompiles(_)
SumCompiles(S) ==
  IF S = {} THEN 0
  ELSE LET i == CHOOSE x \in S : TRUE IN inv[i].compiles + SumCompiles(S \ {i})

\* C11: patterns are compiled in init only.  A map invocation makes no
\* Regex::new call, whatever its record and outcome; an init whose patterns
\* all compile makes one call per operation; so when the only init of a run
\* has succeeded with N operations, the calls of the whole run are N, however
\* many map invocations there are.
C11_CompileOnlyInInit ==
  /\ \A i \in Maps : inv[i].compiles = 0
  /\ \A i \in Inits :
       (inv[i].pc = "done" /\ inv[i].res.tag # "Err") =>
         inv[i].compiles = Len(inv[i].arg.spec.entries)
  /\ \A w \in Inits :
       (Inits = {w} /\ inv[w].pc = "done" /\ inv[w].res.tag = "Ok") =>
         /\ Len(OPS.val) = Len(inv[w].arg.spec.entries)
         /\ SumCompiles(Started) = Len(OPS.val)

\* One init with two operations, then a record that succeeds and one that fails.
C11_Witness ==
  /\ Inits = {1}
  /\ inv[1].pc = "done"
  /\ inv[1].res.tag = "Ok"
  /\ Len(OPS.val) = 2
  /\ Maps = {2, 3}
  /\ \E i \in Maps : inv[i].pc = "done" /\ inv[i].res.tag = "Ok"
  /\ \E i \in Maps : inv[i].pc = "done" /\ inv[i].res.tag = "Err" /\ inv[i].loc.some
  /\ SumCompiles(Started) = 2

\* A step of a map invocation.
MapStep == \E i \in Calls : inv'[i] # inv[i] /\ inv'[i].call = "map"

\* C18: map invocations that run together in the Ready state only read the
\* cell: no step of a map changes it, each invocation works on the installed
\* list, and it returns what a map call alone returns for its record.
C18_ConcurrentMapsOnlyRead ==
  /\ [](\A i \in Maps :
          inv[i].loc.some =>
            /\ inv[i].loc = OPS
            /\ inv[i].pc = "done" => inv[i].res = MapResult(OPS, inv[i].arg))
  /\ [][MapStep => OPS' = OPS]_vars

\* A map that began after another and finished while that one is in flight.
C18_Witness ==
  \E i \in Maps : \E j \in Maps :
    /\ i < j
    /\ inv[i].pc = "apply"
    /\ inv[j].pc = "done"
    /\ inv[j].loc.some
    /\ inv[j].res.tag = "Ok"

Winners == {i \in Inits : inv[i].pc = "done" /\ inv[i].res.tag = "Ok"}

\* The list compile_regex returns for the configuration of invocation i.
CompiledOf(i) == compile_regex(get_params(inv[i].arg).val).val

\* C20: when init invocations race with each other and with map
\* invocations, at most one init installs a pipeline; the cell then holds the
\* complete compiled list of that init, which a losing init (it ends in the
\* 'already initialized' panic) does not replace; every map invocation got
\* either nothing, and fails with the not-initialized error, or that list.
C20_RacingInits ==
  /\ Cardinality(Winners) <= 1
  /\ OPS.some <=> Winners # {}
  /\ \A w \in Winners : OPS = Some(CompiledOf(w))
  /\ \A i \in Inits :
       (inv[i].pc = "done" /\ inv[i].res = AlreadyInitialized) =>
         \E w \in Winners : w # i
  /\ \A i \in Maps :
       IF inv[i].loc.some
       THEN inv[i].loc = OPS
       ELSE inv[i].res = Err(NotInitialized)

\* The init that began first lost the race to one with another configuration,
\* and a map invocation got the winner's list.
C20_Witness ==
  /\ Inits = {1, 2}
  /\ inv[1].pc = "done"
  /\ inv[1].res = AlreadyInitialized
  /\ inv[2].pc = "done"
  /\ inv[2].res.tag = "Ok"
  /\ inv[1].arg # inv[2].arg
  /\ Maps = {3}
  /\ inv[3].loc = Some(CompiledOf(2))

\* The positions of the template of an operation that refer to a group its
\* pattern does not define.
UndefinedRefs(op) ==
  LET r == RegexNew(op.regex) IN
  IF r.tag = "Err" THEN {}
  ELSE {j \in 1..Len(op.with) :
          \/ op.with[j] = "$1" /\ Len(r.val.groups) < 1
          \/ op.with[j] = "$2" /\ Len(r.val.groups) < 2
          \/ op.with[j] = "$first"
             /\ \A g \in 1..Len(r.val.groups) : r.val.groups[g].name # "first"}

\* C16 as stated: an operation whose template refers to a group its pattern
\* does not define is rejected when it is compiled: an init whose list holds
\* one fails, the cell never holds one, and no map invocation works on one.
C16_UndefinedReferenceRejected ==
  /\ \A i \in Inits :
       (/\ inv[i].pc = "done"
        /\ PARAM_NAME \in DOMAIN inv[i].arg
        /\ \E k \in 1..Len(inv[i].arg.spec.entries) :
             UndefinedRefs(inv[i].arg.spec.entries[k]) # {}) =>
         inv[i].res.tag = "Err"
  /\ OPS.some => \A k \in 1..Len(OPS.val) : UndefinedRefs(OPS.val[k]) = {}
  /\ \A i \in Maps :
       inv[i].loc.some =>
         \A k \in 1..Len(inv[i].loc.val) : UndefinedRefs(inv[i].loc.val[k]) = {}

\* ------------------------------------------------------------------ one operation on one text

PatTokens == {"1", "d", "(", "<", ")"}

UnitTemplates == {<<"a">>, <<"$0", "$0">>, <<"$first", "a">>, <<"$1">>, <<"a", "$2">>}

UnitTexts == SeqsUpTo({"1", "a"}, MaxText)

UnitOps ==
  {[regex |-> pat, with |-> w, re |-> None] :
     pat \in SeqsUpTo(PatTokens, MaxPat), w \in UnitTemplates}

\* An operation and a text, before the pattern is compiled.
InitUnit ==
  /\ OPS = None
  /\ initFailed = FALSE
  /\ inv = [i \in Calls |-> Idle]
  /\ last \in {[call |-> "pending", op |-> op, text |-> t] : op \in UnitOps, t \in UnitTexts}

UnitCompile ==
  /\ last.call = "pending"
  /\ last' = [call |-> "clone_with_regex", op |-> last.op, text |-> last.text,
               res |-> clone_with_regex(last.op)]
  /\ UNCHANGED <<OPS, initFailed, inv>>

UnitRun ==
  /\ last.call = "clone_with_regex"
  /\ last.res.tag = "Ok"
  /\ last' = [call |-> "run_regex", op |-> last.res.val, text |-> last.text,
               res |-> run_regex(last.res.val, last.text)]
  /\ UNCHANGED <<OPS, initFailed, inv>>

NextUnit == UnitCompile \/ UnitRun

SpecUnit == InitUnit /\ [][NextUnit]_vars

IsParen(t) == t \in {"(", "<", ")"}

\* The characters and classes of a pattern, without its group marks.
Atoms(pat) == SelectSeq(pat, LAMBDA t : ~IsParen(t))

AtomsBefore(pat, i) == Cardinality({k \in 1..(i - 1) : ~IsParen(pat[k])})

\* The pattern has a match that begins at offset p of the text.
HasMatch(pat, text, p) ==
  LET atoms == Atoms(pat) IN
  /\ p + Len(atoms) <= Len(text)
  /\ \A k \in 1..Len(atoms) :
       IF atoms[k] = "d" THEN text[p + k] \in Digits ELSE text[p + k] = atoms[k]

\* Offset p begins a match that replace_all replaces: the pattern matches
\* there and no replaced match that begins before p reaches over p.
RECURSIVE IsStart(_, _, _)
IsStart(pat, text, p) ==
  /\ HasMatch(pat, text, p)
  /\ \A q \in 0..(p - 1) : q + Len(Atoms(pat)) > p => ~IsStart(pat, text, q)

Starts(pat, text) == {p \in 0..Len(text) : IsStart(pat, text, p)}

\* The character at offset p lies in a replaced match.
Covered(pat, text, p) ==
  \E q \in Starts(pat, text) : q <= p /\ p < q + Len(Atoms(pat))

\* The token that opens group g, and the token that closes the group opened at i.
OpenOf(pat, g) == CHOOSE i \in 1..Len(pat) : pat[i] \in {"(", "<"} /\ Opens(pat, i) = g
CloseOf(pat, i) ==
  LET closing == {j \in (i + 1)..Len(pat) :
                    /\ pat[j] = ")"
                    /\ Opens(pat, j) - Opens(pat, i) = Closes(pat, j) - Closes(pat, i) - 1}
  IN CHOOSE j \in closing : \A m \in closing : j <= m

\* What group g holds for the match at offset p.
GroupText(pat, text, p, g) ==
  IF g > Opens(pat, Len(pat)) THEN <<>>
  ELSE LET i == OpenOf(pat, g) IN
       SubSeq(text, p + AtomsBefore(pat, i) + 1, p + AtomsBefore(pat, CloseOf(pat, i)))

\* What one element of a template stands for in the match at offset p.
Resolved(pat, text, p, elem) ==
  CASE elem = "$0" -> SubSeq(text, p + 1, p + Len(Atoms(pat)))
    [] elem = "$1" -> GroupText(pat, text, p, 1)
    [] elem = "$2" -> GroupText(pat, text, p, 2)
    [] elem = "$first" ->
         IF \E i \in 1..Len(pat) : pat[i] = "<"
         THEN GroupText(pat, text, p, Opens(pat, CHOOSE i \in 1..Len(pat) : pat[i] = "<"))
         ELSE <<>>
    [] OTHER -> <<elem>>

RECURSIVE Instantiated(_, _, _, _, _)
Instantiated(pat, text, p, with, j) ==
  IF j = 0 THEN <<>>
  ELSE Instantiated(pat, text, p, with, j - 1) \o Resolved(pat, text, p, with[j])

\* The result up to offset p: at each offset the template when a replaced
\* match begins there, then the character when it lies in no replaced match.
RECURSIVE Rebuilt(_, _, _, _)
Rebuilt(pat, text, with, p) ==
  IF p < 0 THEN <<>>
  ELSE Rebuilt(pat, text, with, p - 1)
       \o (IF IsStart(pat, text, p) THEN Instantiated(pat, text, p, with, Len(with)) ELSE <<>>)
       \o (IF p < Len(text) /\ ~Covered(pat, text, p) THEN <<text[p + 1]>> ELSE <<>>)

\* C15: run_regex of a compiled operation returns the text in which every
\* match found by the scan from the left (a match begins where the pattern
\* matches and no earlier replaced match reaches) is replaced by the template,
\* its references standing for what the groups hold in that match, and every
\* character outside these matches is kept in place; when the pattern matches
\* nowhere the text is returned as it is, and the call returns a text.
C15_ReplaceEveryMatch ==
  last.call = "run_regex" =>
    /\ last.res = Rebuilt(last.op.regex, last.text, last.op.with, Len(last.text))
    /\ (\A p \in 0..Len(last.text) : ~HasMatch(last.op.regex, last.text, p)) =>
         last.res = last.text
    /\ last.res \in Seq({"1", "a"})

\* Two matches of a named group in "1a1", the character between them kept.
C15_Witness ==
  /\ last.call = "run_regex"
  /\ last.op.regex = <<"<", "d", ")">>
  /\ last.op.with = <<"$first", "a">>
  /\ last.text = <<"1", "a", "1">>
  /\ last.res = <<"1", "a", "a", "1", "a">>

====
